---- MODULE Spec2Model ----
(***************************************************************************)
(* Gift tax prototype: the Flask handlers of app.py around compute_tax of  *)
(* gift_tax/calculator.py.                                                 *)
(*                                                                         *)
(* Decimal amounts of money are whole currency units (integers).  A rate   *)
(* is a Decimal fraction; it is held as an integer count of 1/RateScale,   *)
(* so that taxable_base * rate is a fraction that quantize has to round.   *)
(* A value read from the YAML law table is a tagged record: the table is   *)
(* untyped, and what Decimal(str(x)), x[key] and x.get(key) do depends on  *)
(* the Python type of x.                                                   *)
(***************************************************************************)
EXTENDS Integers, Sequences, FiniteSets, TLC

VARIABLES LAW_CONTEXT, gift_input, response

vars == <<LAW_CONTEXT, gift_input, response>>

\* ---------------------------------------------------------------- bounds

\* Largest property_value a form submits.
MaxValue == 5

\* Largest prior_gifts a form submits.
MaxPrior == 2

\* Denominator of the rates: a rate value r stands for the Decimal r / RateScale.
RateScale == 10

\* ------------------------------------------------------- untyped YAML values

Num(n) == [kind |-> "num", v |-> n]

\* A string that is not a number, such as "abc".
Text == [kind |-> "text", v |-> 0]

\* YAML null, Python None.
Null == [kind |-> "null", v |-> 0]

\* The key is not in the mapping.
Absent == [kind |-> "absent", v |-> 0]

\* Optional[Decimal] fields of the breakdown.
Some(x) == [some |-> TRUE, v |-> x]

None == [some |-> FALSE, v |-> 0]

Min2(a, b) == IF a <= b THEN a ELSE b

RESIDENCY_OPTIONS == {"resident", "non_resident"}

RELATIONSHIP_OPTIONS == {"spouse", "others"}

\* ------------------------------------------------------------ law tables

\* basic_deduction rows: the mapping relationship -> limit under one residency key.
Row(spouse, others) ==
    [kind |-> "map", cells |-> [r \in RELATIONSHIP_OPTIONS |-> IF r = "spouse" THEN spouse ELSE others]]

RowAbsent == [kind |-> "absent", cells |-> [r \in RELATIONSHIP_OPTIONS |-> Absent]]

\* The residency key holds a scalar, not a mapping.
RowText == [kind |-> "text", cells |-> [r \in RELATIONSHIP_OPTIONS |-> Absent]]

BasicTable(resident, non_resident) ==
    [kind |-> "map", rows |-> [s \in RESIDENCY_OPTIONS |-> IF s = "resident" THEN resident ELSE non_resident]]

BasicAbsent == [kind |-> "absent", rows |-> [s \in RESIDENCY_OPTIONS |-> RowAbsent]]

BasicText == [kind |-> "text", rows |-> [s \in RESIDENCY_OPTIONS |-> RowAbsent]]

BasicTables ==
    { BasicTable(Row(Num(3), Num(1)), Row(Num(2), Absent)),
      BasicTable(Row(Text, Num(0)), RowAbsent),
      BasicTable(RowText, Row(Num(4), Num(-1))),
      BasicAbsent,
      BasicText }

Bracket(mn, mx, rate, deduction) ==
    [min |-> mn, max |-> mx, rate |-> rate, deduction |-> deduction]

\* The entries a progressive_rates list is built from: bounded and unbounded
\* ranges, overlapping ranges, defaulted keys, a missing rate, a text field,
\* a deduction larger than the tax, a negative rate.
BracketEntries ==
    { Bracket(Num(0), Num(2), Num(1), Num(0)),
      Bracket(Num(3), Null, Num(5), Num(1)),
      Bracket(Num(1), Num(4), Num(20), Absent),
      Bracket(Absent, Absent, Num(3), Num(4)),
      Bracket(Num(0), Null, Absent, Num(0)),
      Bracket(Num(2), Num(5), Text, Num(0)),
      Bracket(Num(4), Null, Num(-5), Num(-4)) }

ProgressiveRates ==
    {<<>>} \cup {<<a>> : a \in BracketEntries} \cup {<<a, b>> : a, b \in BracketEntries}

\* metadata: a mapping, a mapping whose version is still the template marker,
\* or a scalar.
MetadataKinds == {"map", "placeholder", "text"}

LawTable(metadata, basic, rates) ==
    [kind |-> "table", metadata |-> metadata, basic_deduction |-> basic,
     progressive_rates |-> rates]

\* yaml.safe_load(handle) or {} of an empty file.
EmptyData ==
    [kind |-> "empty", metadata |-> "absent", basic_deduction |-> BasicAbsent,
     progressive_rates |-> <<>>]

\* LawContext.data of a file that does not exist.
NoData ==
    [kind |-> "none", metadata |-> "absent", basic_deduction |-> BasicAbsent,
     progressive_rates |-> <<>>]

LawFiles ==
    {[exists |-> FALSE, raw_data |-> NoData]}
    \cup {[exists |-> TRUE, raw_data |-> EmptyData]}
    \cup {[exists |-> TRUE, raw_data |-> LawTable(m, b, p)] :
            m \in MetadataKinds, b \in BasicTables, p \in ProgressiveRates}

load_law_table(file) ==
    IF ~file.exists
    THEN [data |-> NoData, configured |-> FALSE]
    ELSE [data |-> file.raw_data,
          configured |-> ~(file.raw_data.metadata = "placeholder")]

\* ------------------------------------------------- _find_progressive_bracket

\* Decimal(str(x)): a number converts; a text, None or any other object raises
\* decimal.InvalidOperation, which is an ArithmeticError, not a ValueError.
IsDecimal(x) == x.kind = "num"

NoBracket == [min |-> 0, max |-> None, rate |-> 0, deduction |-> 0]

\* One pass of the normalising loop: "ok" appends nb, "skip" is the continue of
\* the except clause (only the KeyError of bracket["rate"] reaches it), "raise"
\* is an InvalidOperation the except clause does not list.
NormalizeBracket(b) ==
    LET minBad == ~(b.min.kind = "absent" \/ IsDecimal(b.min))
        maxBad == ~(b.max.kind \in {"absent", "null"} \/ IsDecimal(b.max))
        rateBad == ~IsDecimal(b.rate)
        dedBad == ~(b.deduction.kind = "absent" \/ IsDecimal(b.deduction))
        nb == [min |-> IF b.min.kind = "absent" THEN 0 ELSE b.min.v,
               max |-> IF b.max.kind \in {"absent", "null"} THEN None ELSE Some(b.max.v),
               rate |-> b.rate.v,
               deduction |-> IF b.deduction.kind = "absent" THEN 0 ELSE b.deduction.v]
    IN  IF minBad \/ maxBad THEN [outcome |-> "raise", nb |-> NoBracket]
        ELSE IF b.rate.kind = "absent" THEN [outcome |-> "skip", nb |-> NoBracket]
        ELSE IF rateBad \/ dedBad THEN [outcome |-> "raise", nb |-> NoBracket]
        ELSE [outcome |-> "ok", nb |-> nb]

RECURSIVE NormalizeFrom(_, _, _)
NormalizeFrom(brackets, i, normalized) ==
    IF i > Len(brackets) THEN [raised |-> FALSE, normalized |-> normalized]
    ELSE LET r == NormalizeBracket(brackets[i])
         IN  IF r.outcome = "raise" THEN [raised |-> TRUE, normalized |-> normalized]
             ELSE IF r.outcome = "skip" THEN NormalizeFrom(brackets, i + 1, normalized)
             ELSE NormalizeFrom(brackets, i + 1, Append(normalized, r.nb))

Normalize(brackets) == NormalizeFrom(brackets, 1, <<>>)

\* x placed behind every element whose min is not larger: the sort is stable.
RECURSIVE InsertByMin(_, _)
InsertByMin(x, sorted) ==
    IF sorted = <<>> THEN <<x>>
    ELSE IF Head(sorted).min <= x.min THEN <<Head(sorted)>> \o InsertByMin(x, Tail(sorted))
    ELSE <<x>> \o sorted

RECURSIVE SortFrom(_, _, _)
SortFrom(list, i, sorted) ==
    IF i > Len(list) THEN sorted
    ELSE SortFrom(list, i + 1, InsertByMin(list[i], sorted))

\* The table order kept: the sort left out.
SortByMinUnsorted(normalized) == normalized

\* normalized.sort(key=lambda item: item["min"])
SortByMin(normalized) == SortFrom(normalized, 1, <<>>)

InRange(bracket, taxable_base) ==
    LET lower_ok == taxable_base >= bracket.min
        upper_ok == ~bracket.max.some \/ taxable_base <= bracket.max.v
    IN  lower_ok /\ upper_ok

RECURSIVE FirstMatch(_, _, _)
FirstMatch(normalized, i, taxable_base) ==
    IF i > Len(normalized) THEN [found |-> FALSE, bracket |-> NoBracket]
    ELSE IF InRange(normalized[i], taxable_base)
         THEN [found |-> TRUE, bracket |-> normalized[i]]
         ELSE FirstMatch(normalized, i + 1, taxable_base)

find_progressive_bracket(brackets, taxable_base) ==
    LET n == Normalize(brackets)
    IN  IF n.raised
        THEN [raised |-> TRUE, found |-> FALSE, bracket |-> NoBracket]
        ELSE LET m == FirstMatch(SortByMin(n.normalized), 1, taxable_base)
             IN  [raised |-> FALSE, found |-> m.found, bracket |-> m.bracket]

\* ------------------------------------------------------------- compute_tax

NoteUnavailable == [kind |-> "law_table_unavailable", amount |-> 0]

NoteNoDeduction == [kind |-> "basic_deduction_undefined", amount |-> 0]

NoteNoBracket == [kind |-> "bracket_not_found", amount |-> 0]

\* The note citing the taxable base the rate and deduction were applied to.
NoteApplied(taxable_base) == [kind |-> "bracket_applied", amount |-> taxable_base]

\* The note citing int(prior_gifts).
NotePrior(prior_gifts) == [kind |-> "prior_gifts", amount |-> prior_gifts]

\* The subtraction without its floor.
NetGiftUnfloored(property_value, debt_assumed) == property_value - debt_assumed

NetGift(property_value, debt_assumed) ==
    LET net_gift == property_value - debt_assumed
    IN  IF net_gift < 0 THEN 0 ELSE net_gift

\* The flag alone decides, an empty table is taken for a usable one.
LawUnavailableFlagOnly(law) == ~law.configured

\* not law.configured or not law.data: None and {} are both falsy.
LawUnavailable(law) == ~law.configured \/ law.data.kind \in {"none", "empty"}

\* Decimal(str(basic_table[residency_key][relationship_key])) with
\* basic_table = law.data.get("basic_deduction", {}): a missing key raises
\* KeyError, indexing a scalar raises TypeError, a cell that is no number
\* raises InvalidOperation.
LookupLimit(data, residency_key, relationship_key) ==
    LET basic_table == data.basic_deduction
        row == basic_table.rows[residency_key]
        cell == row.cells[relationship_key]
    IN  IF basic_table.kind = "text" THEN [exc |-> "TypeError", v |-> 0]
        ELSE IF basic_table.kind = "absent" \/ ~(residency_key \in DOMAIN basic_table.rows)
             THEN [exc |-> "KeyError", v |-> 0]
        ELSE IF row.kind = "absent" THEN [exc |-> "KeyError", v |-> 0]
        ELSE IF row.kind = "text" THEN [exc |-> "TypeError", v |-> 0]
        ELSE IF cell.kind = "absent" THEN [exc |-> "KeyError", v |-> 0]
        ELSE IF ~IsDecimal(cell) THEN [exc |-> "InvalidOperation", v |-> 0]
        ELSE [exc |-> "none", v |-> cell.v]

PriorGiftsAdjustment(prior_gifts, basic_deduction_limit) ==
    Min2(prior_gifts, basic_deduction_limit)

BasicDeductionApplied(basic_deduction_limit, prior_gifts_adjustment) ==
    LET applied == basic_deduction_limit - prior_gifts_adjustment
    IN  IF applied < 0 THEN 0 ELSE applied

\* The operands exchanged.
TaxableBaseSwapped(net_gift, basic_deduction_applied) ==
    LET taxable_base == basic_deduction_applied - net_gift
    IN  IF taxable_base < 0 THEN 0 ELSE taxable_base

TaxableBase(net_gift, basic_deduction_applied) ==
    LET taxable_base == net_gift - basic_deduction_applied
    IN  IF taxable_base < 0 THEN 0 ELSE taxable_base

\* The fraction cut off instead of rounded (ROUND_DOWN).
QuantizeTruncated(n, d) ==
    IF n >= 0 THEN n \div d ELSE -((-n) \div d)

\* (n / d).quantize(Decimal("1"), rounding=ROUND_HALF_UP): to the nearest whole
\* number, a tie away from zero.
Quantize(n, d) ==
    IF n >= 0 THEN (2 * n + d) \div (2 * d) ELSE -((2 * (-n) + d) \div (2 * d))

\* raw_tax and tax_due are fractions with denominator RateScale until quantize.
TaxDue(taxable_base, bracket) ==
    LET raw_tax == taxable_base * bracket.rate
        tax_due == raw_tax - bracket.deduction * RateScale
    IN  Quantize(IF tax_due < 0 THEN 0 ELSE tax_due, RateScale)

NoTax == [raised |-> FALSE, tax_due |-> None, applied_rate |-> None,
          progressive_deduction |-> None, notes |-> <<>>]

BracketStage(data, taxable_base) ==
    LET f == find_progressive_bracket(data.progressive_rates, taxable_base)
    IN  IF f.raised THEN [NoTax EXCEPT !.raised = TRUE]
        ELSE IF ~f.found THEN [NoTax EXCEPT !.notes = <<NoteNoBracket>>]
        ELSE [raised |-> FALSE,
              tax_due |-> Some(TaxDue(taxable_base, f.bracket)),
              applied_rate |-> Some(f.bracket.rate),
              progressive_deduction |-> Some(f.bracket.deduction),
              notes |-> <<NoteApplied(taxable_base)>>]

\* The bracket looked up for a zero base too.
TaxStageNoShortcut(data, taxable_base) == BracketStage(data, taxable_base)

\* if taxable_base == 0: tax_due = 0, else the bracket lookup.
TaxStage(data, taxable_base) ==
    IF taxable_base = 0 THEN [NoTax EXCEPT !.tax_due = Some(0)]
    ELSE BracketStage(data, taxable_base)

\* The note left out.
PriorGiftsNoteDropped(prior_gifts) == <<>>

\* if gift_input.prior_gifts: notes.append(...)
PriorGiftsNote(prior_gifts) ==
    IF prior_gifts # 0 THEN <<NotePrior(prior_gifts)>> ELSE <<>>

\* The fields every GiftBreakdown starts from: the locals before the law is read.
InitialBreakdown(gift) ==
    [law_configured |-> FALSE,
     relationship |-> gift.relationship,
     residency_status |-> gift.residency_status,
     property_value |-> gift.property_value,
     debt_assumed |-> gift.debt_assumed,
     net_gift |-> NetGift(gift.property_value, gift.debt_assumed),
     basic_deduction_limit |-> 0,
     prior_gifts_adjustment |-> gift.prior_gifts,
     basic_deduction |-> 0,
     taxable_base |-> 0,
     applied_rate |-> None,
     progressive_deduction |-> None,
     tax_due |-> None,
     notes |-> <<>>]

Raise(exc, gift) == [raised |-> exc, breakdown |-> InitialBreakdown(gift)]

Return(breakdown) == [raised |-> "none", breakdown |-> breakdown]

compute_tax(gift, law) ==
    LET start == InitialBreakdown(gift)
    IN  IF LawUnavailable(law)
        THEN Return([start EXCEPT
                 !.law_configured = law.configured /\ law.data.kind = "table",
                 !.notes = <<NoteUnavailable>>])
        ELSE IF law.data.kind = "none" \/ law.data.metadata = "text"
        THEN Raise("AttributeError", gift)
        ELSE LET limit == LookupLimit(law.data, gift.residency_status, gift.relationship)
             IN  IF limit.exc = "KeyError"
                 THEN Return([start EXCEPT !.law_configured = FALSE,
                                           !.notes = <<NoteNoDeduction>>])
                 ELSE IF limit.exc # "none" THEN Raise(limit.exc, gift)
                 ELSE LET adjustment == PriorGiftsAdjustment(gift.prior_gifts, limit.v)
                          applied == BasicDeductionApplied(limit.v, adjustment)
                          taxable_base == TaxableBase(start.net_gift, applied)
                          tax == TaxStage(law.data, taxable_base)
                      IN  IF tax.raised THEN Raise("InvalidOperation", gift)
                          ELSE Return([start EXCEPT
                                   !.law_configured = law.configured /\ law.data.kind = "table",
                                   !.basic_deduction_limit = limit.v,
                                   !.prior_gifts_adjustment = adjustment,
                                   !.basic_deduction = applied,
                                   !.taxable_base = taxable_base,
                                   !.applied_rate = tax.applied_rate,
                                   !.progressive_deduction = tax.progressive_deduction,
                                   !.tax_due = tax.tax_due,
                                   !.notes = tax.notes \o PriorGiftsNote(gift.prior_gifts)])

\* ------------------------------------------------------------ GiftInput

\* An empty form field.
Blank == [kind |-> "blank", v |-> 0]

\* The form data a browser posts to /calc.
Payloads ==
    [relationship : RELATIONSHIP_OPTIONS \cup {""},
     residency_status : RESIDENCY_OPTIONS,
     property_value : {Num(n) : n \in (-1)..MaxValue},
     debt_assumed : {Blank, Num(2)},
     prior_gifts : {Blank} \cup {Num(n) : n \in 1..MaxPrior}]

\* if value in (None, ""): return Decimal("0")
parse_decimal(value) == IF value.kind = "blank" THEN 0 ELSE value.v

NoGift ==
    [relationship |-> "", residency_status |-> "", property_value |-> 0,
     debt_assumed |-> 0, prior_gifts |-> 0]

\* GiftInput(**payload): the fields that fail validation (a blank text field,
\* a negative amount), and the record when none does.
GiftInput(payload) ==
    LET gift == [relationship |-> payload.relationship,
                 residency_status |-> payload.residency_status,
                 property_value |-> parse_decimal(payload.property_value),
                 debt_assumed |-> parse_decimal(payload.debt_assumed),
                 prior_gifts |-> parse_decimal(payload.prior_gifts)]
        errors == {f \in {"relationship", "residency_status"} : payload[f] = ""}
                  \cup {f \in {"property_value", "debt_assumed", "prior_gifts"} : gift[f] < 0}
    IN  [errors |-> errors, gift |-> IF errors = {} THEN gift ELSE NoGift]

\* ------------------------------------------------------------ handlers

FormPage(status, errors) ==
    [page |-> "form", status |-> status, errors |-> errors, raised |-> "none",
     breakdown |-> InitialBreakdown(NoGift)]

Init ==
    /\ LAW_CONTEXT \in {load_law_table(f) : f \in LawFiles}
    /\ gift_input = NoGift
    /\ response = FormPage(200, {})

\* GET /: the empty form.
form ==
    /\ gift_input' = NoGift
    /\ response' = FormPage(200, {})
    /\ UNCHANGED LAW_CONTEXT

\* POST /calc.  The payload is the data of form.html, which the browser shows
\* after GET / and after a rejected submission.
calculate(payload) ==
    /\ response.page = "form"
    /\ LET validated == GiftInput(payload)
           result == compute_tax(validated.gift, LAW_CONTEXT)
       IN  IF validated.errors # {}
           THEN /\ gift_input' = NoGift
                /\ response' = FormPage(400, validated.errors)
           ELSE /\ gift_input' = validated.gift
                /\ response' =
                     [page |-> IF result.raised = "none" THEN "result" ELSE "error",
                      status |-> IF result.raised = "none" THEN 200 ELSE 500,
                      errors |-> {},
                      raised |-> result.raised,
                      breakdown |-> result.breakdown]
    /\ UNCHANGED LAW_CONTEXT

Next ==
    \/ form
    \/ \E payload \in Payloads : calculate(payload)

Spec == Init /\ [][Next]_vars

\* ------------------------------------------------------------ properties

\* compute_tax was called on a validated GiftInput and returned a GiftBreakdown.
Returned == response.page = "result"

\* compute_tax was called on a validated GiftInput.
Called == response.page \in {"result", "error"}

Max0(x) == IF x > 0 THEN x ELSE 0

HasNote(note) == \E i \in DOMAIN response.breakdown.notes : response.breakdown.notes[i] = note

HasNoteOfKind(kind) ==
    \E i \in DOMAIN response.breakdown.notes : response.breakdown.notes[i].kind = kind

\* The law table cannot be used at all: the flag is off or there is no data.
Unconfigured == ~LAW_CONTEXT.configured \/ LAW_CONTEXT.data.kind # "table"

\* basic_deduction is a mapping (or missing) that has no entry for the gift's
\* residency_status or, under it, for the gift's relationship.
EntryMissing ==
    LET basic == LAW_CONTEXT.data.basic_deduction
        row == basic.rows[gift_input.residency_status]
    IN  \/ basic.kind = "absent"
        \/ basic.kind = "map" /\ row.kind = "absent"
        \/ basic.kind = "map" /\ row.kind = "map"
             /\ row.cells[gift_input.relationship].kind = "absent"

\* C1: compute_tax never throws, whatever the content of the law table: every
\* call on a validated gift ends in a breakdown, none in an exception.
C1_NeverThrows == Called => response.raised = "none"

\* C2: with law.configured false or law.data empty or absent, every gift gets a
\* breakdown with law_configured false, zero limit, deduction and taxable base,
\* no tax_due, no rate, no progressive deduction, and the note that the law
\* table is unavailable.
C2_DegradedPath ==
    (Called /\ Unconfigured) =>
        /\ Returned
        /\ response.breakdown.law_configured = FALSE
        /\ response.breakdown.basic_deduction_limit = 0
        /\ response.breakdown.basic_deduction = 0
        /\ response.breakdown.taxable_base = 0
        /\ response.breakdown.tax_due = None
        /\ response.breakdown.applied_rate = None
        /\ response.breakdown.progressive_deduction = None
        /\ HasNote(NoteUnavailable)

\* A gift worth something met a table that is present but empty.
C2_Witness ==
    /\ Returned
    /\ LAW_CONTEXT.configured
    /\ LAW_CONTEXT.data.kind = "empty"
    /\ response.breakdown.net_gift > 0

\* C3: a configured table without a basic_deduction entry for the gift's
\* residency and relationship gives law_configured false, the downstream
\* fields (limit, prior-gift adjustment, deduction, taxable base) all zero, no
\* tax_due and an explanatory note.
C3_ConfigurationGap ==
    (Called /\ ~Unconfigured /\ LAW_CONTEXT.data.metadata # "text" /\ EntryMissing) =>
        /\ Returned
        /\ response.breakdown.law_configured = FALSE
        /\ response.breakdown.basic_deduction_limit = 0
        /\ response.breakdown.prior_gifts_adjustment = 0
        /\ response.breakdown.basic_deduction = 0
        /\ response.breakdown.taxable_base = 0
        /\ response.breakdown.tax_due = None
        /\ HasNote(NoteNoDeduction)

\* C4: in every breakdown the prior-gift adjustment is the prior gifts capped
\* at the deduction limit, and the deduction is the limit less the adjustment,
\* floored at zero.
C4_PriorGiftsCap ==
    Returned =>
        /\ response.breakdown.prior_gifts_adjustment
             = Min2(gift_input.prior_gifts, response.breakdown.basic_deduction_limit)
        /\ response.breakdown.basic_deduction
             = Max0(response.breakdown.basic_deduction_limit
                    - response.breakdown.prior_gifts_adjustment)

\* C5 as stated: in every breakdown net_gift and taxable_base are the floored
\* differences of the values the breakdown reports.
C5_FloorsEveryBreakdown ==
    Returned =>
        /\ response.breakdown.net_gift
             = Max0(response.breakdown.property_value - response.breakdown.debt_assumed)
        /\ response.breakdown.taxable_base
             = Max0(response.breakdown.net_gift - response.breakdown.basic_deduction)

\* C5 amended: net_gift is the floored difference in every breakdown; the
\* taxable base is the floored difference in every breakdown whose
\* law_configured is true (on the two degraded paths it is zero instead).
C5_FloorsStageByStage ==
    Returned =>
        /\ response.breakdown.net_gift
             = Max0(response.breakdown.property_value - response.breakdown.debt_assumed)
        /\ response.breakdown.law_configured =>
             response.breakdown.taxable_base
               = Max0(response.breakdown.net_gift - response.breakdown.basic_deduction)

\* The debt exceeds the property value, so the first floor acts, in a breakdown
\* of the full computation.
C5_Witness ==
    /\ Returned
    /\ response.breakdown.law_configured
    /\ response.breakdown.debt_assumed > response.breakdown.property_value
    /\ response.breakdown.basic_deduction > 0

\* C6 as stated: in every breakdown a zero taxable base comes with a tax_due
\* of zero and neither rate nor progressive deduction.
C6_ZeroShortcutEveryBreakdown ==
    (Returned /\ response.breakdown.taxable_base = 0) =>
        /\ response.breakdown.tax_due = Some(0)
        /\ response.breakdown.applied_rate = None
        /\ response.breakdown.progressive_deduction = None

\* C6 amended: in every breakdown whose law_configured is true, a zero
\* taxable base comes with tax_due zero, no rate, no progressive deduction and
\* no trace of a bracket lookup in the notes.
C6_ZeroShortcut ==
    (Returned /\ response.breakdown.law_configured /\ response.breakdown.taxable_base = 0) =>
        /\ response.breakdown.tax_due = Some(0)
        /\ response.breakdown.applied_rate = None
        /\ response.breakdown.progressive_deduction = None
        /\ ~HasNoteOfKind("bracket_applied")
        /\ ~HasNoteOfKind("bracket_not_found")

\* A zero base under a table whose first bracket starts at zero: a lookup
\* would have matched it.
C6_Witness ==
    /\ Returned
    /\ response.breakdown.law_configured
    /\ response.breakdown.taxable_base = 0
    /\ LAW_CONTEXT.data.progressive_rates = <<Bracket(Num(0), Num(2), Num(1), Num(0))>>

\* The entries of progressive_rates that have a rate and whose range, with a
\* missing min read as 0 and a missing or null max as unbounded, holds x.
Containing(x) ==
    LET rates == LAW_CONTEXT.data.progressive_rates
    IN  {i \in DOMAIN rates :
            /\ rates[i].rate.kind = "num"
            /\ (IF rates[i].min.kind = "num" THEN rates[i].min.v ELSE 0) <= x
            /\ rates[i].max.kind = "num" => x <= rates[i].max.v}

MinOf(i) ==
    LET entry == LAW_CONTEXT.data.progressive_rates[i]
    IN  IF entry.min.kind = "num" THEN entry.min.v ELSE 0

DeductionOf(i) ==
    LET entry == LAW_CONTEXT.data.progressive_rates[i]
    IN  IF entry.deduction.kind = "num" THEN entry.deduction.v ELSE 0

\* max(0, taxable_base * rate - deduction) of the breakdown, as a count of
\* 1/RateScale.
FlooredTax ==
    Max0(response.breakdown.taxable_base * response.breakdown.applied_rate.v
         - response.breakdown.progressive_deduction.v * RateScale)

\* C7: when a bracket is matched for a positive taxable base, tax_due is
\* max(0, taxable_base * rate - deduction) rounded to the nearest whole unit
\* with a tie rounded up, the rate and deduction reported are those of a
\* bracket of the table that holds the base, and tax_due is a whole number
\* that is not negative.
C7_TaxAmount ==
    (Returned /\ response.breakdown.applied_rate.some) =>
        /\ response.breakdown.taxable_base > 0
        /\ response.breakdown.tax_due.some
        /\ response.breakdown.progressive_deduction.some
        /\ response.breakdown.tax_due.v \in Nat
        /\ 2 * (response.breakdown.tax_due.v * RateScale - FlooredTax) <= RateScale
        /\ 2 * (FlooredTax - response.breakdown.tax_due.v * RateScale) < RateScale
        /\ \E i \in Containing(response.breakdown.taxable_base) :
              /\ LAW_CONTEXT.data.progressive_rates[i].rate.v = response.breakdown.applied_rate.v
              /\ DeductionOf(i) = response.breakdown.progressive_deduction.v

\* A matched bracket whose tax lies exactly halfway between two whole units.
C7_Witness ==
    /\ Returned
    /\ response.breakdown.applied_rate.some
    /\ FlooredTax > 0
    /\ 2 * (FlooredTax % RateScale) = RateScale

\* The tax of the same gift with another property value.
TaxAt(property_value) ==
    compute_tax([gift_input EXCEPT !.property_value = property_value], LAW_CONTEXT)

C9_BracketResolution ==
    (Returned /\ response.breakdown.law_configured /\ response.breakdown.taxable_base > 0) =>
        LET holding == Containing(response.breakdown.taxable_base)
        IN  IF holding = {}
            THEN /\ response.breakdown.tax_due = None
                 /\ response.breakdown.applied_rate = None
                 /\ response.breakdown.progressive_deduction = None
                 /\ HasNote(NoteNoBracket)
            ELSE \E i \in holding :
                    /\ \A j \in holding : MinOf(i) <= MinOf(j)
                    /\ response.breakdown.applied_rate
                         = Some(LAW_CONTEXT.data.progressive_rates[i].rate.v)
                    /\ response.breakdown.progressive_deduction = Some(DeductionOf(i))
                    /\ ~HasNote(NoteNoBracket)

\* The table lists the bracket from 3 before the overlapping bracket from 1,
\* and the base lies in both: the later entry is the one used.
C9_Witness ==
    /\ Returned
    /\ LAW_CONTEXT.data.progressive_rates
         = <<Bracket(Num(3), Null, Num(5), Num(1)), Bracket(Num(1), Num(4), Num(20), Absent)>>
    /\ response.breakdown.taxable_base \in 3..4
    /\ response.breakdown.applied_rate = Some(20)

\* C10 as stated: on every path the note about the prior gifts is in the
\* notes exactly when prior_gifts > 0.
C10_PriorNoteEveryPath ==
    Returned =>
        /\ gift_input.prior_gifts > 0 => HasNote(NotePrior(gift_input.prior_gifts))
        /\ gift_input.prior_gifts = 0 => ~HasNoteOfKind("prior_gifts")

\* C10 amended: the note about the prior gifts, with their amount, is in the
\* notes exactly when prior_gifts > 0 and the breakdown has law_configured
\* true (zero taxable base, matched bracket or no matching bracket); with an
\* unconfigured table, a missing deduction entry or prior_gifts = 0 there is
\* no such note.
C10_PriorNote ==
    Returned =>
        /\ (gift_input.prior_gifts > 0 /\ response.breakdown.law_configured)
             => HasNote(NotePrior(gift_input.prior_gifts))
        /\ (gift_input.prior_gifts = 0 \/ ~response.breakdown.law_configured)
             => ~HasNoteOfKind("prior_gifts")

\* Prior gifts were declared and no bracket held the taxable base: both notes.
C10_Witness ==
    /\ Returned
    /\ response.breakdown.law_configured
    /\ gift_input.prior_gifts > 0
    /\ HasNote(NoteNoBracket)
    /\ HasNote(NotePrior(gift_input.prior_gifts))

====
